---- MODULE Spec2Model ----
(***************************************************************************)
(* Model of the container storage encoding (iconscore/icon_container_db.py) *)
(* and of the contract element registry (iconscore/typing/element.py) of    *)
(* icon-service.                                                            *)
(*                                                                          *)
(* Bytes are sequences of integers 0..255, text is a sequence of code       *)
(* points.  A Python value is a record [t, n, s]: t is the Python type, n   *)
(* the integer payload (int, bool, Address prefix) and s the sequence       *)
(* payload (str, bytes, Address body).  The result of a call is a record    *)
(* [exc, b, val]: exc is "" when the call returned, else the name of the    *)
(* exception class that propagated; b is a returned byte string, val a      *)
(* returned Python value.                                                   *)
(***************************************************************************)
EXTENDS Integers, Sequences, FiniteSets, TLC

VARIABLES store, abstract, last, container

vars == <<store, abstract, last, container>>

----------------------------------------------------------------------------
(* Bounds *)

MaxTextLen == 3
MaxInt == 17
MaxWrites == 1
MaxDepth == 2
MaxCount == 3
MaxOffset == 70

----------------------------------------------------------------------------
(* Python values *)

NoneV == [t |-> "None", n |-> 0, s |-> <<>>]
IntV(i) == [t |-> "int", n |-> i, s |-> <<>>]
BoolV(i) == [t |-> "bool", n |-> i, s |-> <<>>]
StrV(cs) == [t |-> "str", n |-> 0, s |-> cs]
BytesV(bs) == [t |-> "bytes", n |-> 0, s |-> bs]
AddressV(p, body) == [t |-> "Address", n |-> p, s |-> body]
FloatV(i) == [t |-> "float", n |-> i, s |-> <<>>]

Returned(b, v) == [exc |-> "", b |-> b, val |-> v]
Raised(e) == [exc |-> e, b |-> <<>>, val |-> NoneV]

\* isinstance(x, int): bool is a subclass of int
IsInt(x) == x.t \in {"int", "bool"}

\* the alphabet of the modelled text: '0', 'x', '|' and the two-byte 'e-acute'
Alphabet == {48, 120, 124, 233}

SeqsUpTo(S, n) == UNION {[1..k -> S] : k \in 0..n}

Texts(n) == SeqsUpTo(Alphabet, n)

IntValues == {IntV(i) : i \in (0 - 2)..MaxInt}
BoolValues == {BoolV(0), BoolV(1)}
StrValues == {StrV(cs) : cs \in Texts(MaxTextLen)}
BytesValues == {BytesV(bs) : bs \in SeqsUpTo({0, 124, 255}, 2)}
AddressValues == {AddressV(p, body) : p \in {0, 1}, body \in {<<0>>, <<171>>}}

\* the five semantic types of V (icon_container_db.py line 8)
Values == IntValues \cup BoolValues \cup StrValues \cup BytesValues \cup AddressValues

\* the three key types of K (line 7), plus one value outside K
KeyValues == IntValues \cup StrValues \cup AddressValues
AnyKeys == KeyValues \cup BoolValues \cup {BytesV(<<124>>)}

ValueTypes == {"int", "str", "bool", "Address", "bytes", "float"}

----------------------------------------------------------------------------
(* str.encode() / bytes.decode(): UTF-8 *)

Utf8Char(cp) ==
    IF cp < 128 THEN <<cp>>
    ELSE IF cp < 2048 THEN <<192 + (cp \div 64), 128 + (cp % 64)>>
    ELSE <<224 + (cp \div 4096), 128 + ((cp \div 64) % 64), 128 + (cp % 64)>>

RECURSIVE Utf8Bytes(_)
Utf8Bytes(cs) ==
    IF cs = <<>> THEN <<>> ELSE Utf8Char(Head(cs)) \o Utf8Bytes(Tail(cs))

IsSurrogate(cp) == cp >= 55296 /\ cp <= 57343

\* str.encode(): fails on a lone surrogate
StrEncode(cs) ==
    IF \E i \in DOMAIN cs : IsSurrogate(cs[i]) THEN Raised("UnicodeEncodeError")
    ELSE Returned(Utf8Bytes(cs), NoneV)

IsCont(b) == b >= 128 /\ b < 192

\* bytes.decode(): the code points, or <<-1>> for malformed UTF-8
RECURSIVE Utf8Points(_)
Utf8Points(bs) ==
    IF bs = <<>> THEN <<>>
    ELSE LET b1 == bs[1]
             n == IF b1 < 128 THEN 1
                  ELSE IF b1 >= 194 /\ b1 < 224 THEN 2
                  ELSE IF b1 >= 224 /\ b1 < 240 THEN 3 ELSE 0
         IN IF n = 0 \/ Len(bs) < n \/ (\E i \in 2..n : ~IsCont(bs[i])) THEN <<0 - 1>>
            ELSE LET cp == IF n = 1 THEN b1
                           ELSE IF n = 2 THEN (b1 - 192) * 64 + (bs[2] - 128)
                           ELSE (b1 - 224) * 4096 + (bs[2] - 128) * 64 + (bs[3] - 128)
                     rest == Utf8Points(SubSeq(bs, n + 1, Len(bs)))
                 IN IF (n = 3 /\ (cp < 2048 \/ IsSurrogate(cp))) \/ rest = <<0 - 1>>
                    THEN <<0 - 1>> ELSE <<cp>> \o rest

BytesDecode(bs) ==
    LET cs == Utf8Points(bs)
    IN IF cs = <<0 - 1>> THEN Raised("UnicodeDecodeError") ELSE Returned(cs, NoneV)

----------------------------------------------------------------------------
(* hex(int) and int(str, 16) *)

HexDigit(d) == IF d < 10 THEN 48 + d ELSE 87 + d

RECURSIVE HexDigits(_)
HexDigits(i) ==
    IF i < 16 THEN <<HexDigit(i)>> ELSE HexDigits(i \div 16) \o <<HexDigit(i % 16)>>

\* hex(): sign, '0x', lowercase digits without padding
Hex(i) ==
    IF i < 0 THEN <<45, 48, 120>> \o HexDigits(0 - i) ELSE <<48, 120>> \o HexDigits(i)

DigitVal(c) ==
    IF c >= 48 /\ c <= 57 THEN c - 48
    ELSE IF c >= 97 /\ c <= 102 THEN c - 87
    ELSE IF c >= 65 /\ c <= 70 THEN c - 55 ELSE 0 - 1

RECURSIVE DigitsVal(_, _)
DigitsVal(cs, acc) ==
    IF cs = <<>> THEN acc ELSE DigitsVal(Tail(cs), acc * 16 + DigitVal(Head(cs)))

\* int(s, 16): optional sign, optional 0x prefix, at least one hex digit
\* (whitespace and underscores are outside the modelled alphabet)
ParseInt16(cs) ==
    LET neg == cs # <<>> /\ cs[1] = 45
        s1 == IF cs # <<>> /\ cs[1] \in {43, 45} THEN Tail(cs) ELSE cs
        s2 == IF Len(s1) >= 2 /\ s1[1] = 48 /\ s1[2] \in {88, 120}
              THEN SubSeq(s1, 3, Len(s1)) ELSE s1
    IN IF s2 = <<>> \/ (\E i \in DOMAIN s2 : DigitVal(s2[i]) < 0)
       THEN Raised("ValueError")
       ELSE Returned(<<>>, IntV(IF neg THEN 0 - DigitsVal(s2, 0) ELSE DigitsVal(s2, 0)))

----------------------------------------------------------------------------
(* Address: str(address) and Address.from_string *)

AddressPrefix(p) == IF p = 0 THEN <<104, 120>> ELSE <<99, 120>>

RECURSIVE BodyHex(_)
BodyHex(body) ==
    IF body = <<>> THEN <<>>
    ELSE <<HexDigit(Head(body) \div 16), HexDigit(Head(body) % 16)>> \o BodyHex(Tail(body))

AddressStr(a) == AddressPrefix(a.n) \o BodyHex(a.s)

RECURSIVE HexBody(_)
HexBody(cs) ==
    IF cs = <<>> THEN <<>>
    ELSE <<DigitVal(cs[1]) * 16 + DigitVal(cs[2])>> \o HexBody(SubSeq(cs, 3, Len(cs)))

AddressFromString(cs) ==
    LET body == SubSeq(cs, 3, Len(cs))
    IN IF Len(cs) < 2 \/ SubSeq(cs, 1, 2) \notin {AddressPrefix(0), AddressPrefix(1)}
          \/ Len(body) % 2 # 0 \/ (\E i \in DOMAIN body : DigitVal(body[i]) < 0)
       THEN Raised("InvalidParamsException")
       ELSE Returned(<<>>, AddressV(IF SubSeq(cs, 1, 2) = AddressPrefix(0) THEN 0 ELSE 1,
                                    HexBody(body)))

----------------------------------------------------------------------------
(* ContainerUtil *)

PIPE == 124

\* ContainerUtil.__encode_key: the str form of a key
ContainerUtil__encode_key(key) ==
    IF IsInt(key) THEN Returned(<<>>, StrV(Hex(key.n)))
    ELSE IF key.t = "str" THEN Returned(<<>>, key)
    ELSE Raised("IconScoreBaseException: can't encode key")

\* ContainerUtil.encode_key: '{}{}'.format(key_str, '|').encode()
encode_key(key) ==
    LET key_str == ContainerUtil__encode_key(key)
    IN IF key_str.exc # "" THEN key_str ELSE StrEncode(key_str.val.s \o <<PIPE>>)

\* ContainerUtil.__encode_value: a str for int, str, Address; the bytes
\* object itself for bytes
ContainerUtil__encode_value(value) ==
    IF IsInt(value) THEN Returned(<<>>, StrV(Hex(value.n)))
    ELSE IF value.t = "str" THEN Returned(<<>>, value)
    ELSE IF value.t = "Address" THEN Returned(<<>>, StrV(AddressStr(value)))
    ELSE IF value.t = "bool" THEN Returned(<<>>, StrV(Hex(value.n)))
    ELSE IF value.t = "bytes" THEN Returned(<<>>, value)
    ELSE Raised("IconScoreBaseException: can't encode value")

\* ContainerUtil.encode_value: __encode_value(value).encode(); a bytes
\* object has no attribute 'encode'
encode_value(value) ==
    LET byte_value == ContainerUtil__encode_value(value)
    IN IF byte_value.exc # "" THEN byte_value
       ELSE IF byte_value.val.t = "str" THEN StrEncode(byte_value.val.s)
       ELSE Raised("AttributeError")

\* ContainerUtil.decode_object(value, value_type); value is bytes or None
decode_object(value, value_type) ==
    IF value = NoneV THEN Returned(<<>>, NoneV)
    ELSE LET text == BytesDecode(value.s)
             first ==
                 IF value_type = "int"
                 THEN IF text.exc # "" THEN text ELSE ParseInt16(text.b)
                 ELSE IF value_type = "str"
                 THEN IF text.exc # "" THEN text ELSE Returned(<<>>, StrV(text.b))
                 ELSE IF value_type = "Address"
                 THEN IF text.exc # "" THEN text ELSE AddressFromString(text.b)
                 ELSE Returned(<<>>, NoneV)
         IN IF first.exc # "" THEN first
            ELSE IF value_type = "bool"
            THEN IF text.exc # "" THEN text
                 ELSE LET i == ParseInt16(text.b)
                      IN IF i.exc # "" THEN i
                         ELSE Returned(<<>>, BoolV(IF i.val.n # 0 THEN 1 ELSE 0))
            ELSE IF value_type = "bytes" THEN Returned(<<>>, value)
            ELSE first

----------------------------------------------------------------------------
(* IconScoreDatabase: a handle is the byte prefix it is scoped under *)

RootDb == <<>>

get_sub_db(db, prefix) == db \o prefix

DbGet(st, db, key) ==
    IF (db \o key) \in DOMAIN st THEN BytesV(st[db \o key]) ELSE NoneV

DbPut(st, db, key, value) ==
    [k \in DOMAIN st \cup {db \o key} |-> IF k = db \o key THEN value ELSE st[k]]

\* Python's binding of positional arguments to a function's parameters
BindError(nparams, nargs) == nparams # nargs

----------------------------------------------------------------------------
(* DictDB *)

DictDB_init(var_key, db, value_type, depth) ==
    [db |-> get_sub_db(db, encode_key(var_key).b), value_type |-> value_type,
     depth |-> depth]

\* what iterating the keys argument yields: kind is "none" (None), "tuple"
\* (a tuple of items) or "single" (the one object items[1])
IterKeys(kind, items) ==
    IF kind = "none" THEN <<>>
    ELSE IF kind = "tuple" THEN items
    ELSE LET v == items[1]
         IN IF v.t = "str" THEN [i \in 1..Len(v.s) |-> StrV(<<v.s[i]>>)]
            ELSE IF v.t = "bytes" THEN [i \in 1..Len(v.s) |-> IntV(v.s[i])]
            ELSE <<v>>

\* DictDB.__check_tuple_keys(self, keys): b carries the checked keys
DictDB__check_tuple_keys(self, kind, items) ==
    LET keys == IterKeys(kind, items)
    IN IF \E i \in DOMAIN keys : ~(IsInt(keys[i]) \/ keys[i].t \in {"str", "Address"})
       THEN Raised("IconScoreBaseException: can't cast args")
       ELSE IF Len(keys) # self.depth THEN Raised("IconScoreBaseException: depth over")
       ELSE Returned(keys, NoneV)

\* for key in keys: sub_db = sub_db.get_sub_db(ContainerUtil.encode_key(key))
RECURSIVE WalkSubDb(_, _)
WalkSubDb(sub_db, keys) ==
    IF keys = <<>> THEN Returned(sub_db, NoneV)
    ELSE LET k == encode_key(Head(keys))
         IN IF k.exc # "" THEN k ELSE WalkSubDb(get_sub_db(sub_db, k.b), Tail(keys))

Front(keys) == SubSeq(keys, 1, Len(keys) - 1)

\* DictDB.__setitem__: [res, store]; the call DictDB.__check_tuple_keys(keys)
\* passes one argument to a function of two parameters
DictDB__setitem__(self, st, kind, items, value) ==
    LET checked == IF BindError(2, 1) THEN Raised("TypeError")
                   ELSE DictDB__check_tuple_keys(self, kind, items)
        keys == checked.b
        sub_db == WalkSubDb(self.db, Front(keys))
        last_key == encode_key(keys[Len(keys)])
        byte_value == encode_value(value)
    IN IF checked.exc # "" THEN [res |-> checked, store |-> st]
       ELSE IF keys = <<>> THEN [res |-> Raised("ValueError"), store |-> st]
       ELSE IF sub_db.exc # "" THEN [res |-> sub_db, store |-> st]
       ELSE IF byte_value.exc # "" THEN [res |-> byte_value, store |-> st]
       ELSE IF last_key.exc # "" THEN [res |-> last_key, store |-> st]
       ELSE [res |-> Returned(<<>>, NoneV),
             store |-> DbPut(st, sub_db.b, last_key.b, byte_value.b)]

\* DictDB.__getitem__
DictDB__getitem__(self, st, kind, items) ==
    LET checked == IF BindError(2, 1) THEN Raised("TypeError")
                   ELSE DictDB__check_tuple_keys(self, kind, items)
        keys == checked.b
        sub_db == WalkSubDb(self.db, Front(keys))
        last_key == encode_key(keys[Len(keys)])
    IN IF checked.exc # "" THEN checked
       ELSE IF keys = <<>> THEN Raised("ValueError")
       ELSE IF sub_db.exc # "" THEN sub_db
       ELSE IF last_key.exc # "" THEN last_key
       ELSE decode_object(DbGet(st, sub_db.b, last_key.b), self.value_type)

----------------------------------------------------------------------------
(* ListDB *)

ListDB__SIZE == StrV(<<115, 105, 122, 101>>)

\* ListDB.__get_size(self)
ListDB__get_size(self, st) ==
    LET db_list_size == decode_object(DbGet(st, self.db, encode_key(ListDB__SIZE).b), "int")
    IN IF db_list_size.exc # "" THEN db_list_size
       ELSE IF db_list_size.val # NoneV /\ db_list_size.val.n # 0 THEN db_list_size
       ELSE Returned(<<>>, IntV(0))

\* ListDB.__init__: the call ListDB.__get_size() passes no argument to a
\* function of one parameter; val carries the size of the constructed list
ListDB_init(var_key, db, value_type, st) ==
    LET self == [db |-> get_sub_db(db, encode_key(var_key).b)]
    IN IF BindError(1, 0) THEN Raised("TypeError") ELSE ListDB__get_size(self, st)

\* ListDB.__set_size: pass
ListDB__set_size(self, st) == st

\* ListDB.put on an instance [db, size, value_type]: [res, store, size]
ListDB_put(self, st, value) ==
    LET byte_value == encode_value(value)
    IN IF byte_value.exc # "" THEN [res |-> byte_value, store |-> st, size |-> self.size]
       ELSE [res |-> Returned(<<>>, NoneV),
             store |-> DbPut(st, self.db, encode_key(IntV(self.size)).b, byte_value.b),
             size |-> self.size + 1]

\* an instance as ListDB.__new__ allocates it: __init__ never returns one,
\* and pop and get read no attribute of self
ListDB_new == [cls |-> "ListDB"]

\* ListDB.pop: raise NotImplemented() calls the NotImplemented singleton,
\* which is not callable
ListDB_pop(self) == Raised("TypeError")

\* ListDB.get
ListDB_get(self, keys) == Raised("TypeError")

----------------------------------------------------------------------------
(* VarDB *)

VarDB_init(var_key, db, value_type) ==
    [db |-> db, var_byte_key |-> encode_key(var_key).b, value_type |-> value_type]

\* VarDB.set: [res, store]
VarDB_set(self, st, value) ==
    LET byte_value == encode_value(value)
    IN IF byte_value.exc # "" THEN [res |-> byte_value, store |-> st]
       ELSE [res |-> Returned(<<>>, NoneV),
             store |-> DbPut(st, self.db, self.var_byte_key, byte_value.b)]

\* VarDB.get
VarDB_get(self, st) == decode_object(DbGet(st, self.db, self.var_byte_key), self.value_type)

----------------------------------------------------------------------------
(* ScoreFlag and the exceptions of the element registry *)

NONE == 0
READONLY == 1
EXTERNAL == 2
PAYABLE == 4
EVENTLOG == 8
INTERFACE == 16
FUNC == READONLY + EXTERNAL + PAYABLE

METHOD_NOT_FOUND == 3

RECURSIVE BitAnd(_, _)
BitAnd(a, b) ==
    IF a = 0 \/ b = 0 THEN 0
    ELSE (a % 2) * (b % 2) + 2 * BitAnd(a \div 2, b \div 2)

\* utils.is_any_flag_on
is_any_flag_on(flag, mask) == BitAnd(flag, mask) # 0

\* MethodNotFoundException(message): the code is METHOD_NOT_FOUND
MethodNotFoundException(message) ==
    [exc |-> "MethodNotFoundException", code |-> METHOD_NOT_FOUND, message |-> message]

----------------------------------------------------------------------------
(* Type hints and signatures.  A hint is [str, origin, args]: str says that *)
(* the annotation is written as a string, origin is the type or the generic *)
(* origin, args the type arguments.  origin "empty" is Parameter.empty.     *)

Hint(origin, args) == [str |-> FALSE, origin |-> origin, args |-> args]
NameHint(name) == [str |-> TRUE, origin |-> name, args |-> <<>>]

BaseTypes == {"int", "str", "bool", "bytes", "Address"}
is_base_type(origin) == origin \in BaseTypes
is_struct(origin) == origin = "struct"

\* name_to_type: the base type of that name
name_to_type(type_hint) ==
    IF type_hint.origin \in BaseTypes
    THEN [exc |-> "", hint |-> Hint(type_hint.origin, <<>>)]
    ELSE [exc |-> "IllegalFormatException", hint |-> type_hint]

RECURSIVE normalize_type_hint(_)
normalize_type_hint(annotation) ==
    LET named == IF annotation.str THEN name_to_type(annotation)
                 ELSE [exc |-> "", hint |-> annotation]
        type_hint == named.hint
        origin == type_hint.origin
        args == type_hint.args
        size == Len(args)
    IN IF named.exc # "" THEN named
       ELSE IF is_base_type(origin) \/ is_struct(origin) THEN [exc |-> "", hint |-> type_hint]
       ELSE IF origin = "list" /\ size = 1
       THEN LET a == normalize_type_hint(args[1])
            IN IF a.exc # "" THEN a ELSE [exc |-> "", hint |-> Hint("list", <<a.hint>>)]
       ELSE IF origin = "dict" /\ size = 2 /\ args[1] = Hint("str", <<>>)
       THEN LET a == normalize_type_hint(args[2])
            IN IF a.exc # "" THEN a
               ELSE [exc |-> "", hint |-> Hint("dict", <<Hint("str", <<>>), a.hint>>)]
       ELSE [exc |-> "IllegalFormatException", hint |-> type_hint]

\* normalize_parameter: the parameter's normalised annotation
normalize_parameter(annotation) ==
    IF annotation.origin = "empty" THEN [exc |-> "", hint |-> Hint("str", <<>>)]
    ELSE normalize_type_hint(annotation)

\* normalize_signature: [exc, sig], the parameters' annotations normalised in order
RECURSIVE normalize_signature(_)
normalize_signature(params) ==
    IF params = <<>> THEN [exc |-> "", sig |-> <<>>]
    ELSE LET new_param == normalize_parameter(Head(params))
             rest == normalize_signature(Tail(params))
         IN IF new_param.exc # "" THEN [exc |-> new_param.exc, sig |-> <<>>]
            ELSE IF rest.exc # "" THEN rest
            ELSE [exc |-> "", sig |-> <<new_param.hint>> \o rest.sig]

----------------------------------------------------------------------------
(* Score elements.  A callable is [name, score_flag, params]; a score       *)
(* element is [cls, origin, signature] with cls its class.                  *)

Callable(name, flag, params) == [name |-> name, score_flag |-> flag, params |-> params]
NoElement == [cls |-> "", origin |-> Callable(<<>>, NONE, <<>>), signature |-> <<>>]

\* getattr(obj, CONST_SCORE_FLAG, default)
get_score_flag(obj) == IF "score_flag" \in DOMAIN obj THEN obj.score_flag ELSE NONE

is_any_score_flag_on(obj, flag) == is_any_flag_on(get_score_flag(obj), flag)

\* verify_score_flag without the check of READONLY against EXTERNAL
verify_score_flag_NoExternalCheck(flag) ==
    IF BitAnd(flag, READONLY) # 0 /\ BitAnd(flag, PAYABLE) # 0
    THEN "IllegalFormatException"
    ELSE IF BitAnd(flag, EVENTLOG) # 0 /\ flag # EVENTLOG THEN "IllegalFormatException"
    ELSE IF BitAnd(flag, INTERFACE) # 0 /\ flag # INTERFACE THEN "IllegalFormatException"
    ELSE ""

verify_score_flag(flag) ==
    IF BitAnd(flag, READONLY) # 0 /\ BitAnd(flag, PAYABLE) # 0
    THEN "IllegalFormatException"
    ELSE IF BitAnd(flag, READONLY) # 0 /\ BitAnd(flag, EXTERNAL) = 0
    THEN "IllegalFormatException"
    ELSE IF BitAnd(flag, EVENTLOG) # 0 /\ flag # EVENTLOG THEN "IllegalFormatException"
    ELSE IF BitAnd(flag, INTERFACE) # 0 /\ flag # INTERFACE THEN "IllegalFormatException"
    ELSE ""

\* ScoreElement.__init__ via Function(func) or EventLog(eventlog)
ScoreElement_init(cls, origin) ==
    LET sig == normalize_signature(origin.params)
    IN [exc |-> sig.exc, elem |-> [cls |-> cls, origin |-> origin, signature |-> sig.sig]]

\* Function.is_external
is_external(element) == BitAnd(get_score_flag(element.origin), EXTERNAL) # 0

\* create_score_element that makes every candidate a Function
create_score_element_AlwaysFunction(element) == ScoreElement_init("Function", element)

create_score_element(element) ==
    IF BitAnd(get_score_flag(element), EVENTLOG) # 0 THEN ScoreElement_init("EventLog", element)
    ELSE ScoreElement_init("Function", element)

----------------------------------------------------------------------------
(* ScoreElementContainer: elements is the OrderedDict as a sequence of      *)
(* [k, v] in insertion order.  The operators return [exc, c].               *)

ScoreElementContainer_init ==
    [live |-> TRUE, tried |-> TRUE, elements |-> <<>>, externals |-> 0, eventlogs |-> 0,
     readonly |-> FALSE]

HasKey(elements, k) == \E i \in DOMAIN elements : elements[i].k = k
IndexOf(elements, k) == CHOOSE i \in DOMAIN elements : elements[i].k = k

\* self._elements[k] = v
OrderedDictSet(elements, k, v) ==
    IF HasKey(elements, k)
    THEN [elements EXCEPT ![IndexOf(elements, k)] = [k |-> k, v |-> v]]
    ELSE Append(elements, [k |-> k, v |-> v])

\* del self._elements[k]
OrderedDictDel(elements, k) ==
    LET i == IndexOf(elements, k)
    IN SubSeq(elements, 1, i - 1) \o SubSeq(elements, i + 1, Len(elements))

\* _check_writable that never raises
_check_writable_Never(c) == ""

_check_writable(c) == IF c.readonly THEN "InternalServiceErrorException" ELSE ""

Container__setitem__(c, k, v) ==
    LET c1 == [c EXCEPT !.elements = OrderedDictSet(c.elements, k, v)]
    IN IF _check_writable(c) # "" THEN [exc |-> _check_writable(c), c |-> c]
       ELSE IF v.cls = "Function"
       THEN [exc |-> "", c |-> [c1 EXCEPT !.externals = c.externals + 1]]
       ELSE IF v.cls = "EventLog"
       THEN [exc |-> "", c |-> [c1 EXCEPT !.eventlogs = c.eventlogs + 1]]
       ELSE [exc |-> "InternalServiceErrorException", c |-> c1]

Container__delitem__(c, k) ==
    IF _check_writable(c) # "" THEN [exc |-> _check_writable(c), c |-> c]
    ELSE IF ~HasKey(c.elements, k) THEN [exc |-> "KeyError", c |-> c]
    ELSE LET element == c.elements[IndexOf(c.elements, k)].v
             c1 == [c EXCEPT !.elements = OrderedDictDel(c.elements, k)]
         IN IF is_any_score_flag_on(element, EVENTLOG)
            THEN [exc |-> "", c |-> [c1 EXCEPT !.eventlogs = c.eventlogs - 1]]
            ELSE [exc |-> "", c |-> [c1 EXCEPT !.externals = c.externals - 1]]

\* ScoreElementContainer.__getitem__: [exc, elem]
Container__getitem__(c, k) ==
    IF HasKey(c.elements, k) THEN [exc |-> "", elem |-> c.elements[IndexOf(c.elements, k)].v]
    ELSE [exc |-> "KeyError", elem |-> NoElement]

freeze(c) == [c EXCEPT !.readonly = TRUE]

----------------------------------------------------------------------------
(* create_score_elements and get_score_element.  A class is a function from *)
(* the names of its function members to the callables.                      *)

LexLess(a, b) ==
    \E i \in 1..(Len(a) + 1) :
        /\ i <= Len(b)
        /\ \A j \in 1..(i - 1) : a[j] = b[j]
        /\ (i = Len(a) + 1 \/ a[i] < b[i])

\* inspect.getmembers(cls, predicate=isfunction): the members sorted by name
RECURSIVE getmembers(_, _)
getmembers(cls, names) ==
    IF names = {} THEN <<>>
    ELSE LET first == CHOOSE n \in names : \A m \in names \ {n} : LexLess(n, m)
         IN <<cls[first]>> \o getmembers(cls, names \ {first})

\* name.startswith("__")
StartsWithDunder(name) == Len(name) >= 2 /\ name[1] = 95 /\ name[2] = 95

\* the loop of create_score_elements over the remaining members
RECURSIVE CreateLoop(_, _)
CreateLoop(members, elements) ==
    IF members = <<>> THEN [exc |-> "", c |-> elements]
    ELSE LET func == Head(members)
             flag == get_score_flag(func)
             element == create_score_element(func)
             added == Container__setitem__(elements, func.name, element.elem)
         IN IF StartsWithDunder(func.name) THEN CreateLoop(Tail(members), elements)
            ELSE IF ~is_any_flag_on(flag, FUNC + EVENTLOG)
            THEN CreateLoop(Tail(members), elements)
            ELSE IF verify_score_flag(flag) # ""
            THEN [exc |-> verify_score_flag(flag), c |-> elements]
            ELSE IF element.exc # "" THEN [exc |-> element.exc, c |-> elements]
            ELSE IF added.exc # "" THEN added
            ELSE CreateLoop(Tail(members), added.c)

create_score_elements(cls) ==
    LET built == CreateLoop(getmembers(cls, DOMAIN cls), ScoreElementContainer_init)
    IN IF built.exc # "" THEN built ELSE [exc |-> "", c |-> freeze(built.c)]

\* 'Method not found: '
MethodNotFoundText ==
    <<77, 101, 116, 104, 111, 100, 32, 110, 111, 116, 32, 102, 111, 117, 110, 100, 58, 32>>

\* get_score_element that lets the KeyError through
get_score_element_KeyError(score, func_name) ==
    LET found == Container__getitem__(score.elements, func_name)
    IN IF ~score.elements.live
       THEN [exc |-> "AttributeError", code |-> 0, message |-> <<>>, elem |-> NoElement]
       ELSE [exc |-> found.exc, code |-> 0, message |-> <<>>, elem |-> found.elem]

\* get_score_element(score, func_name); score is [type_name, elements], the
\* elements being the CONST_CLASS_ELEMENTS attribute: [exc, code, message, elem]
get_score_element(score, func_name) ==
    LET found == Container__getitem__(score.elements, func_name)
        error == MethodNotFoundException(
                     MethodNotFoundText \o score.type_name \o <<46>> \o func_name)
    IN IF ~score.elements.live
       THEN [exc |-> "AttributeError", code |-> 0, message |-> <<>>, elem |-> NoElement]
       ELSE IF found.exc = "KeyError"
       THEN [exc |-> error.exc, code |-> error.code, message |-> error.message,
             elem |-> NoElement]
       ELSE [exc |-> "", code |-> 0, message |-> <<>>, elem |-> found.elem]

----------------------------------------------------------------------------
(* IconScoreException: the banding of user-defined error codes.  A code is  *)
(* [enum, n]: enum says that it is a member of ExceptionCode, n its value.  *)

INVALID_PARAMETER == 6
SCORE_ERROR == 32
END == 99

RECURSIVE Dec(_)
\* str(i) of a non-negative int
Dec(i) == IF i < 10 THEN <<48 + i>> ELSE Dec(i \div 10) \o <<48 + (i % 10)>>

\* ExceptionCode.__str__ of the two members of the band, and str of an int
CodeStr(code) ==
    IF ~code.enum THEN Dec(code.n)
    ELSE IF code.n = SCORE_ERROR THEN <<83, 99, 111, 114, 101, 32, 101, 114, 114, 111, 114>>
    ELSE <<69, 110, 100>>

\* IconServiceBaseException.__init__: [exc, code, message]
IconServiceBaseException_init(exc, message, code) ==
    [exc |-> exc, code |-> code.n,
     message |-> IF message = NoneV THEN CodeStr(code) ELSE message.s]

InvalidIndexText ==
    <<73, 110, 118, 97, 108, 105, 100, 32, 105, 110, 100, 101, 120, 32, 116, 121, 112, 101,
      58, 32, 110, 111, 116, 32, 97, 110, 32, 105, 110, 116, 101, 103, 101, 114>>

\* InvalidParamsException(message): the code is INVALID_PARAMETER
InvalidParamsException(message) ==
    IconServiceBaseException_init("InvalidParamsException", message,
                                  [enum |-> TRUE, n |-> INVALID_PARAMETER])

\* IconScoreException.__init__ without the clamp to the ceiling of the band
IconScoreException_init_NoCeiling(message, index) ==
    LET code == SCORE_ERROR + index.n
    IN IF ~IsInt(index) THEN InvalidParamsException(StrV(InvalidIndexText))
       ELSE IF code < SCORE_ERROR
       THEN IconServiceBaseException_init("", message, [enum |-> TRUE, n |-> SCORE_ERROR])
       ELSE IconServiceBaseException_init("", message, [enum |-> FALSE, n |-> code])

\* IconScoreException.__init__: exc is "" when the exception is constructed,
\* else the exception the constructor raises
IconScoreException_init(message, index) ==
    LET code == SCORE_ERROR + index.n
    IN IF ~IsInt(index) THEN InvalidParamsException(StrV(InvalidIndexText))
       ELSE IF code < SCORE_ERROR
       THEN IconServiceBaseException_init("", message, [enum |-> TRUE, n |-> SCORE_ERROR])
       ELSE IF code > END
       THEN IconServiceBaseException_init("", message, [enum |-> TRUE, n |-> END])
       ELSE IconServiceBaseException_init("", message, [enum |-> FALSE, n |-> code])

----------------------------------------------------------------------------
(* State shared by the specifications *)

\* the record of the most recent call: its operation, its arguments, its
\* result, and (parg, pres) the argument and result of the call before it
NoCall ==
    [op |-> "", typ |-> "", num |-> 0, kind |-> "", keys |-> <<>>, arg |-> NoneV,
     res |-> Returned(<<>>, NoneV), parg |-> NoneV, pres |-> Returned(<<>>, NoneV),
     name |-> <<>>, tname |-> <<>>, msg |-> <<>>, elem |-> NoElement,
     cls |-> [n \in {} |-> NoElement]]

EmptyStore == [k \in {} |-> <<>>]

\* container is the one ScoreElementContainer the model follows: live says
\* that the program holds it, tried that its construction has been attempted
NoContainer ==
    [live |-> FALSE, tried |-> FALSE, elements |-> <<>>, externals |-> 0, eventlogs |-> 0,
     readonly |-> FALSE]

----------------------------------------------------------------------------
(* SpecCodec: the ContainerUtil codec applied to bounded inputs *)

EncodeValue(value) ==
    /\ last' = [NoCall EXCEPT !.op = "encode_value", !.arg = value,
                              !.res = encode_value(value)]
    /\ UNCHANGED <<store, abstract, container>>

\* decode_object applied to the bytes the last encode_value returned
DecodeObject(value_type) ==
    /\ last.op = "encode_value"
    /\ last.res.exc = ""
    /\ last' = [NoCall EXCEPT !.op = "decode_object", !.typ = value_type,
                              !.arg = BytesV(last.res.b), !.parg = last.arg,
                              !.pres = last.res,
                              !.res = decode_object(BytesV(last.res.b), value_type)]
    /\ UNCHANGED <<store, abstract, container>>

DecodeNone(value_type) ==
    /\ last' = [NoCall EXCEPT !.op = "decode_object", !.typ = value_type,
                              !.res = decode_object(NoneV, value_type)]
    /\ UNCHANGED <<store, abstract, container>>

EncodeKey(key) ==
    /\ last' = [NoCall EXCEPT !.op = "encode_key", !.arg = key, !.res = encode_key(key),
                              !.parg = IF last.op = "encode_key" THEN last.arg ELSE NoneV,
                              !.pres = IF last.op = "encode_key" THEN last.res
                                       ELSE Returned(<<>>, NoneV)]
    /\ UNCHANGED <<store, abstract, container>>

Init ==
    /\ store = EmptyStore
    /\ abstract = EmptyStore
    /\ last = NoCall
    /\ container = NoContainer

NextCodec ==
    \/ \E value \in Values \cup {FloatV(1)} : EncodeValue(value)
    \/ \E value_type \in ValueTypes : DecodeObject(value_type)
    \/ \E value_type \in ValueTypes : DecodeNone(value_type)
    \/ \E key \in AnyKeys : EncodeKey(key)

SpecCodec == Init /\ [][NextCodec]_vars

----------------------------------------------------------------------------
(* SpecVar: VarDB and ListDB over one store; SpecDict: DictDB *)

VarNames == {StrV(<<120>>), StrV(<<120, 124>>)}
StoreValues ==
    {IntV(0), IntV(MaxInt), IntV(0 - 1), StrV(<<48, 120, 48>>), StrV(<<PIPE>>), BytesV(<<PIPE>>)}

\* the DictDB of depth d lives under the key 'd<d>', the list under 'l'
DictName(depth) == StrV(<<100, 48 + depth>>)
ListName == StrV(<<108>>)
DictKeys == {IntV(0), StrV(<<48, 120, 48>>)}
DictValues == {IntV(1), IntV(MaxInt)}
KeyArgs ==
    {[kind |-> "none", items |-> <<>>], [kind |-> "tuple", items |-> <<BytesV(<<PIPE>>)>>]}
    \cup {[kind |-> "single", items |-> <<k>>] :
              k \in DictKeys \cup {AddressV(0, <<0>>), BytesV(<<PIPE>>)}}
    \cup {[kind |-> "tuple", items |-> ks] : ks \in SeqsUpTo(DictKeys, MaxDepth + 1)}

\* a key argument the DictDB contract accepts for the depth: depth keys of
\* the types of K, a single non-tuple key counting as a tuple of length 1
IsKeyType(k) == k.t \in {"int", "str", "Address"}
KeyTuple(kind, items) == IF kind = "none" THEN <<>> ELSE items
ValidKeys(kind, items, depth) ==
    /\ kind \in {"single", "tuple"}
    /\ Len(items) = depth
    /\ \A i \in DOMAIN items : IsKeyType(items[i])

VarDBSet(var_key, value_type, value) ==
    LET r == VarDB_set(VarDB_init(var_key, RootDb, value_type), store, value)
    IN /\ store' = r.store
       /\ last' = [NoCall EXCEPT !.op = "VarDB.set", !.typ = value_type,
                                 !.keys = <<var_key>>, !.arg = value, !.res = r.res]
       /\ UNCHANGED <<abstract, container>>

VarDBGet(var_key, value_type) ==
    /\ last' = [NoCall EXCEPT !.op = "VarDB.get", !.typ = value_type,
                              !.keys = <<var_key>>,
                              !.res = VarDB_get(VarDB_init(var_key, RootDb, value_type),
                                                store)]
    /\ UNCHANGED <<store, abstract, container>>

DictDBSetItem(depth, a, value) ==
    LET self == DictDB_init(DictName(depth), RootDb, "int", depth)
        r == DictDB__setitem__(self, store, a.kind, a.items, value)
        entry == <<depth, a.items>>
    IN /\ ValidKeys(a.kind, a.items, depth) =>
              Cardinality(DOMAIN abstract \cup {entry}) <= MaxWrites
       /\ store' = r.store
       /\ abstract' = IF ValidKeys(a.kind, a.items, depth)
                      THEN [e \in DOMAIN abstract \cup {entry} |->
                                IF e = entry THEN value ELSE abstract[e]]
                      ELSE abstract
       /\ last' = [NoCall EXCEPT !.op = "DictDB.__setitem__", !.typ = "int",
                                 !.num = depth, !.kind = a.kind, !.keys = a.items,
                                 !.arg = value, !.res = r.res]
       /\ UNCHANGED container

DictDBGetItem(depth, a) ==
    LET self == DictDB_init(DictName(depth), RootDb, "int", depth)
    IN /\ last' = [NoCall EXCEPT !.op = "DictDB.__getitem__", !.typ = "int",
                                 !.num = depth, !.kind = a.kind, !.keys = a.items,
                                 !.res = DictDB__getitem__(self, store, a.kind, a.items)]
       /\ UNCHANGED <<store, abstract, container>>

ListDBInit(value_type) ==
    /\ last' = [NoCall EXCEPT !.op = "ListDB.__init__", !.typ = value_type,
                              !.keys = <<ListName>>,
                              !.res = ListDB_init(ListName, RootDb, value_type, store)]
    /\ UNCHANGED <<store, abstract, container>>

ListDBPop ==
    /\ last' = [NoCall EXCEPT !.op = "ListDB.pop", !.keys = <<ListName>>,
                              !.res = ListDB_pop(ListDB_new)]
    /\ UNCHANGED <<store, abstract, container>>

ListDBGet(index) ==
    /\ last' = [NoCall EXCEPT !.op = "ListDB.get", !.keys = <<ListName>>, !.arg = index,
                              !.res = ListDB_get(ListDB_new, index)]
    /\ UNCHANGED <<store, abstract, container>>

NextVar ==
    \/ \E var_key \in VarNames, value_type \in {"int", "str"}, value \in StoreValues :
          VarDBSet(var_key, value_type, value)
    \/ \E var_key \in VarNames, value_type \in {"int", "str"} : VarDBGet(var_key, value_type)
    \/ \E value_type \in {"int", "str"} : ListDBInit(value_type)
    \/ ListDBPop
    \/ \E index \in {IntV(0), IntV(1)} : ListDBGet(index)

SpecVar == Init /\ [][NextVar]_vars

NextDict ==
    \/ \E depth \in 1..MaxDepth, a \in KeyArgs, value \in DictValues :
          DictDBSetItem(depth, a, value)
    \/ \E depth \in 1..MaxDepth, a \in KeyArgs : DictDBGetItem(depth, a)

SpecDict == Init /\ [][NextDict]_vars

----------------------------------------------------------------------------
(* SpecElement: one ScoreElementContainer, built by hand or by              *)
(* create_score_elements over a contract class                              *)

NameF == <<102>>
NameG == <<103>>
NameDunder == <<95, 95, 102>>
MemberNames == {NameF, NameG, NameDunder}
ScoreTypes == {<<83>>, <<84>>}

Masks == 0..(READONLY + EXTERNAL + PAYABLE + EVENTLOG + INTERFACE)

ClassFlags ==
    {NONE, INTERFACE, EXTERNAL, PAYABLE, EXTERNAL + READONLY, READONLY,
     EXTERNAL + READONLY + PAYABLE, EVENTLOG, EVENTLOG + EXTERNAL, INTERFACE + EXTERNAL}

\* no parameter; (Dict[str, List['int']], unannotated); (List[Dict[int, int]])
ParamLists ==
    {<<>>,
     <<Hint("dict", <<Hint("str", <<>>), Hint("list", <<NameHint("int")>>)>>),
       Hint("empty", <<>>)>>,
     <<Hint("list", <<Hint("dict", <<Hint("int", <<>>), Hint("int", <<>>)>>)>>)>>}

Absent == Callable(<<>>, NONE, <<>>)

MemberChoices(name) ==
    {Absent} \cup
    IF StartsWithDunder(name)
    THEN {Callable(name, flag, <<>>) : flag \in {EXTERNAL, READONLY + PAYABLE}}
    ELSE {Callable(name, flag, params) : flag \in ClassFlags, params \in ParamLists}

\* the class with the given members
ClassOf(f, g, d) ==
    LET m == [n \in MemberNames |-> IF n = NameF THEN f ELSE IF n = NameG THEN g ELSE d]
    IN [n \in {x \in MemberNames : m[x] # Absent} |-> m[n]]

\* the values offered to __setitem__: two functions, an eventlog and an
\* object that is no score element
SetValues ==
    {create_score_element(Callable(NameF, EXTERNAL, <<>>)).elem,
     create_score_element(Callable(NameF, PAYABLE, <<>>)).elem,
     create_score_element(Callable(NameG, EVENTLOG, <<>>)).elem,
     [cls |-> "object", origin |-> Callable(NameG, NONE, <<>>), signature |-> <<>>]}

NewContainer ==
    /\ ~container.tried
    /\ container' = ScoreElementContainer_init
    /\ last' = [NoCall EXCEPT !.op = "ScoreElementContainer"]
    /\ UNCHANGED <<store, abstract>>

SetItem(k, v) ==
    LET r == Container__setitem__(container, k, v)
    IN /\ container.live
       /\ container.readonly
              \/ (container.externals < MaxCount /\ container.eventlogs < MaxCount)
       /\ container' = r.c
       /\ last' = [NoCall EXCEPT !.op = "__setitem__", !.name = k, !.elem = v,
                                 !.res = IF r.exc = "" THEN Returned(<<>>, NoneV)
                                         ELSE Raised(r.exc)]
       /\ UNCHANGED <<store, abstract>>

DelItem(k) ==
    LET r == Container__delitem__(container, k)
    IN /\ container.live
       /\ container.readonly
              \/ (container.externals > 0 - MaxCount /\ container.eventlogs > 0 - MaxCount)
       /\ container' = r.c
       /\ last' = [NoCall EXCEPT !.op = "__delitem__", !.name = k,
                                 !.res = IF r.exc = "" THEN Returned(<<>>, NoneV)
                                         ELSE Raised(r.exc)]
       /\ UNCHANGED <<store, abstract>>

Freeze ==
    /\ container.live
    /\ container' = freeze(container)
    /\ last' = [NoCall EXCEPT !.op = "freeze"]
    /\ UNCHANGED <<store, abstract>>

\* elements = create_score_elements(cls); the container built inside is
\* dropped when it raises
CreateScoreElements(cls) ==
    LET r == create_score_elements(cls)
    IN /\ ~container.tried
       /\ container' = IF r.exc = "" THEN r.c ELSE [container EXCEPT !.tried = TRUE]
       /\ last' = [NoCall EXCEPT !.op = "create_score_elements", !.cls = cls,
                                 !.res = IF r.exc = "" THEN Returned(<<>>, NoneV)
                                         ELSE Raised(r.exc)]
       /\ UNCHANGED <<store, abstract>>

VerifyScoreFlag(flag) ==
    /\ last' = [NoCall EXCEPT !.op = "verify_score_flag", !.num = flag,
                              !.res = IF verify_score_flag(flag) = ""
                                      THEN Returned(<<>>, NoneV)
                                      ELSE Raised(verify_score_flag(flag))]
    /\ UNCHANGED <<store, abstract, container>>

GetScoreElement(type_name, func_name) ==
    LET r == get_score_element([type_name |-> type_name, elements |-> container], func_name)
    IN /\ last' = [NoCall EXCEPT !.op = "get_score_element", !.tname = type_name,
                                 !.name = func_name, !.num = r.code, !.msg = r.message,
                                 !.elem = r.elem,
                                 !.res = IF r.exc = "" THEN Returned(<<>>, NoneV)
                                         ELSE Raised(r.exc)]
       /\ UNCHANGED <<store, abstract, container>>

NextElement ==
    \/ NewContainer
    \/ \E k \in {NameF, NameG}, v \in SetValues : SetItem(k, v)
    \/ \E k \in {NameF, NameG} : DelItem(k)
    \/ Freeze
    \/ \E f \in MemberChoices(NameF), g \in MemberChoices(NameG),
          d \in MemberChoices(NameDunder) : CreateScoreElements(ClassOf(f, g, d))
    \/ \E flag \in Masks : VerifyScoreFlag(flag)
    \/ \E type_name \in ScoreTypes, func_name \in MemberNames :
          GetScoreElement(type_name, func_name)

SpecElement == Init /\ [][NextElement]_vars

----------------------------------------------------------------------------
(* SpecException: IconScoreException constructed with bounded offsets *)

Offsets ==
    {IntV(i) : i \in (0 - MaxOffset)..MaxOffset} \cup BoolValues
        \cup {NoneV, FloatV(1), StrV(<<49>>), BytesV(<<49>>)}
Messages == {NoneV, StrV(<<120>>)}

IconScoreExceptionInit(message, index) ==
    LET r == IconScoreException_init(message, index)
    IN /\ last' = [NoCall EXCEPT !.op = "IconScoreException", !.arg = index,
                                 !.parg = message, !.num = r.code, !.msg = r.message,
                                 !.res = IF r.exc = "" THEN Returned(<<>>, NoneV)
                                         ELSE Raised(r.exc)]
       /\ UNCHANGED <<store, abstract, container>>

NextException ==
    \E message \in Messages, index \in Offsets : IconScoreExceptionInit(message, index)

SpecException == Init /\ [][NextException]_vars

----------------------------------------------------------------------------
(* Claims *)

IsPrefix(a, b) == Len(a) <= Len(b) /\ SubSeq(b, 1, Len(a)) = a

\* C1: for every value v of a supported type T (int, str, bool, Address,
\* bytes), encode_value(v) succeeds and decode_object(encode_value(v), T)
\* equals v.
C1_RoundTrip ==
    /\ (last.op = "encode_value" /\ last.arg \in Values) => last.res.exc = ""
    /\ (last.op = "decode_object" /\ last.parg \in Values /\ last.typ = last.parg.t)
           => last.res = Returned(<<>>, last.parg)

\* C2: encode_key succeeds on every key of a supported key type (int, str,
\* Address), and for two different keys neither encoding is a prefix of the
\* other.
C2_PrefixFree ==
    last.op = "encode_key" =>
        /\ last.arg \in KeyValues => last.res.exc = ""
        /\ (last.arg \in KeyValues /\ last.parg \in KeyValues /\ last.arg # last.parg
            /\ last.res.exc = "" /\ last.pres.exc = "")
               => (~IsPrefix(last.res.b, last.pres.b) /\ ~IsPrefix(last.pres.b, last.res.b))

\* C3: a DictDB of depth d is a map over key tuples of length d: get(ks)
\* returns the value of the most recent set on ks, and None if there was
\* none (abstract is that map).
C3_AbstractMap ==
    (last.op = "DictDB.__getitem__" /\ ValidKeys(last.kind, last.keys, last.num))
        => last.res = Returned(<<>>, IF <<last.num, last.keys>> \in DOMAIN abstract
                                     THEN abstract[<<last.num, last.keys>>] ELSE NoneV)

\* C4: a DictDB of depth d rejects a get or set whose key tuple has another
\* length with the depth error, leaving the store unchanged, and accepts a
\* get or set with exactly d keys of type int, str or Address.
C4_DepthCheck ==
    [][last'.op \in {"DictDB.__setitem__", "DictDB.__getitem__"} =>
          /\ ((\A i \in DOMAIN last'.keys : IsKeyType(last'.keys[i]))
              /\ Len(KeyTuple(last'.kind, last'.keys)) # last'.num)
                 => (last'.res.exc = "IconScoreBaseException: depth over" /\ store' = store)
          /\ ValidKeys(last'.kind, last'.keys, last'.num) => last'.res.exc = ""]_vars

\* C5: a ListDB constructed over an empty store has length 0, and a put on
\* the constructed list of length n stores the value under the encoded key n
\* and leaves n + 1 under the key 'size', from which a later ListDB starts.
C5_ListLength ==
    /\ (last.op = "ListDB.__init__" /\ store = EmptyStore)
           => last.res = Returned(<<>>, IntV(0))
    /\ (last.op = "ListDB.__init__" /\ last.res.exc = "") =>
          \A value \in DictValues :
          LET size == last.res.val.n
              self == [db |-> get_sub_db(RootDb, encode_key(ListName).b), size |-> size]
              r == ListDB_put(self, store, value)
          IN /\ DbGet(r.store, self.db, encode_key(IntV(size)).b)
                    = BytesV(encode_value(value).b)
             /\ ListDB__get_size(self, ListDB__set_size(self, r.store))
                    = Returned(<<>>, IntV(size + 1))

\* the flag f is set in the mask m
HasFlag(m, f) == (m \div f) % 2 = 1
FlagBits == {READONLY, EXTERNAL, PAYABLE, EVENTLOG, INTERFACE}
HasOtherFlag(m, f) == \E g \in FlagBits \ {f} : HasFlag(m, g)

\* the four illegal combinations
IllegalFlag(m) ==
    \/ HasFlag(m, READONLY) /\ HasFlag(m, PAYABLE)
    \/ HasFlag(m, READONLY) /\ ~HasFlag(m, EXTERNAL)
    \/ HasFlag(m, EVENTLOG) /\ HasOtherFlag(m, EVENTLOG)
    \/ HasFlag(m, INTERFACE) /\ HasOtherFlag(m, INTERFACE)

\* C6: verify_score_flag raises the illegal-format error exactly for the
\* masks with ReadOnly and Payable, ReadOnly without External, EventLog with
\* another flag, or Interface with another flag, and returns otherwise.
C6_VerifyScoreFlag ==
    last.op = "verify_score_flag" =>
        /\ IllegalFlag(last.num) => last.res.exc = "IllegalFormatException"
        /\ ~IllegalFlag(last.num) => last.res.exc = ""

C6_Witness ==
    /\ last.op = "verify_score_flag"
    /\ last.num = READONLY
    /\ last.res.exc = "IllegalFormatException"

\* C7: a frozen container stays frozen, every later insertion or deletion
\* raises the internal-consistency error, its elements and counts never
\* change again, and create_score_elements returns a frozen container.
C7_FrozenForever ==
    [][/\ (container.live /\ container.readonly) =>
              /\ container'.readonly
              /\ container'.elements = container.elements
              /\ container'.externals = container.externals
              /\ container'.eventlogs = container.eventlogs
              /\ last'.op \in {"__setitem__", "__delitem__"}
                     => last'.res.exc = "InternalServiceErrorException"
       /\ (last'.op = "create_score_elements" /\ last'.res.exc = "")
              => (container'.live /\ container'.readonly)]_vars

C7_Witness ==
    /\ container.readonly
    /\ container.elements # <<>>
    /\ last.op = "__delitem__"
    /\ last.res.exc = "InternalServiceErrorException"

\* the non-dunder members of the class that carry External, Payable,
\* ReadOnly or EventLog
Candidates(cls) ==
    {n \in DOMAIN cls :
        /\ ~StartsWithDunder(n)
        /\ \E f \in {EXTERNAL, PAYABLE, READONLY, EVENTLOG} : HasFlag(cls[n].score_flag, f)}

RegisteredNames(c) == {c.elements[i].k : i \in DOMAIN c.elements}

\* the registry holds exactly the candidates, each as an EventLog when its
\* EventLog flag is set and as a Function otherwise
RegistersCandidates(cls, c) ==
    /\ c.live
    /\ RegisteredNames(c) = Candidates(cls)
    /\ Len(c.elements) = Cardinality(Candidates(cls))
    /\ \A i \in DOMAIN c.elements :
          LET e == c.elements[i]
          IN /\ e.v.origin = cls[e.k]
             /\ e.v.cls = IF HasFlag(cls[e.k].score_flag, EVENTLOG) THEN "EventLog"
                          ELSE "Function"

\* C8 as claimed: create_score_elements raises the illegal-format error
\* exactly when a candidate has an illegal flag combination, and otherwise
\* returns the registry of the candidates.
C8_RaisesExactlyOnIllegalFlags ==
    last.op = "create_score_elements" =>
        IF \E n \in Candidates(last.cls) : IllegalFlag(last.cls[n].score_flag)
        THEN last.res.exc = "IllegalFormatException" /\ ~container.live
        ELSE last.res.exc = "" /\ RegistersCandidates(last.cls, container)

\* an annotation the normalisation accepts: none, a base type or its name, a
\* struct, a list of one accepted type, a dict from str to an accepted type
RECURSIVE SupportedHint(_)
SupportedHint(h) ==
    \/ h.origin = "empty"
    \/ h.origin \in BaseTypes /\ h.args = <<>>
    \/ ~h.str /\ h.origin = "struct"
    \/ ~h.str /\ h.origin = "list" /\ Len(h.args) = 1 /\ SupportedHint(h.args[1])
    \/ /\ ~h.str /\ h.origin = "dict" /\ Len(h.args) = 2
       /\ h.args[1] = Hint("str", <<>>) /\ SupportedHint(h.args[2])

IllegalMember(m) ==
    \/ IllegalFlag(m.score_flag)
    \/ \E i \in DOMAIN m.params : ~SupportedHint(m.params[i])

\* C8 amended: create_score_elements raises the illegal-format error exactly
\* when a candidate has an illegal flag combination or a parameter annotation
\* that the normalisation does not support, and otherwise returns the
\* registry of the candidates.
C8_RaisesExactlyOnIllegalMembers ==
    last.op = "create_score_elements" =>
        IF \E n \in Candidates(last.cls) : IllegalMember(last.cls[n])
        THEN last.res.exc = "IllegalFormatException" /\ ~container.live
        ELSE last.res.exc = "" /\ RegistersCandidates(last.cls, container)

C8_Witness ==
    /\ last.op = "create_score_elements"
    /\ last.res.exc = ""
    /\ DOMAIN last.cls = MemberNames
    /\ last.cls[NameF].score_flag = INTERFACE
    /\ container.live
    /\ Len(container.elements) = 1
    /\ container.elements[1].v.cls = "EventLog"

\* C9: after create_score_elements, externals is the number of registered
\* methods that carry the External flag and eventlogs the number of
\* registered events.
C9_Counts ==
    (last.op = "create_score_elements" /\ last.res.exc = "") =>
        /\ container.externals =
               Cardinality({i \in DOMAIN container.elements :
                               /\ container.elements[i].v.cls = "Function"
                               /\ is_external(container.elements[i].v)})
        /\ container.eventlogs =
               Cardinality({i \in DOMAIN container.elements :
                               container.elements[i].v.cls = "EventLog"})

IsSuffix(a, b) == Len(a) <= Len(b) /\ SubSeq(b, Len(b) - Len(a) + 1, Len(b)) = a

\* C10: get_score_element against a frozen registry returns the element
\* registered under the name, or fails with the method-not-found error (code
\* METHOD_NOT_FOUND) whose message carries the type name and the method name;
\* it leaves the registry unchanged.
C10_GetScoreElement ==
    [][(last'.op = "get_score_element" /\ container.live /\ container.readonly) =>
          /\ container' = container
          /\ IF HasKey(container.elements, last'.name)
             THEN /\ last'.res.exc = ""
                  /\ \E i \in DOMAIN container.elements :
                        container.elements[i] = [k |-> last'.name, v |-> last'.elem]
             ELSE /\ last'.res.exc = "MethodNotFoundException"
                  /\ last'.num = METHOD_NOT_FOUND
                  /\ IsSuffix(last'.tname \o <<46>> \o last'.name, last'.msg)]_vars

C10_Witness ==
    /\ last.op = "get_score_element"
    /\ container.live /\ container.readonly
    /\ container.elements # <<>>
    /\ last.res.exc = "MethodNotFoundException"

\* C11: every container derives a child store handle from the parent's
\* get_sub_db with the encoded container key, and every write goes through
\* that child handle, never through the parent handle itself.
C11_ChildHandle ==
    [][last'.op = "VarDB.set" =>
          LET self == VarDB_init(last'.keys[1], RootDb, last'.typ)
          IN /\ self.db = get_sub_db(RootDb, encode_key(last'.keys[1]).b)
             /\ self.db # RootDb]_vars

\* C12: ListDB.pop and ListDB.get fail with the not-implemented error, which
\* is no ordinary runtime error, and leave the store unchanged.
C12_NotImplemented ==
    [][last'.op \in {"ListDB.pop", "ListDB.get"} =>
          /\ last'.res.exc = "NotImplementedError"
          /\ store' = store]_vars

Min(a, b) == IF a < b THEN a ELSE b
Max(a, b) == IF a > b THEN a ELSE b

\* an offset of Python's integer type, of which bool is a subtype
IsIntegerOffset(x) == x.t \in {"int", "bool"}

\* C13: for every integer offset IconScoreException carries the code
\* min(max(32 + offset, 32), 99), which lies in [32, 99]; a non-integer
\* offset is rejected with the invalid-parameter error, code INVALID_PARAMETER.
C13_Banding ==
    last.op = "IconScoreException" =>
        IF IsIntegerOffset(last.arg)
        THEN /\ last.res.exc = ""
             /\ last.num = Min(Max(32 + last.arg.n, 32), 99)
             /\ last.num \in 32..99
        ELSE /\ last.res.exc = "InvalidParamsException"
             /\ last.num = INVALID_PARAMETER

C13_Witness ==
    /\ last.op = "IconScoreException"
    /\ last.arg.t = "int"
    /\ 32 + last.arg.n > 99
    /\ last.res.exc = ""
    /\ last.num = 99

CountOf(c, cls) == Cardinality({i \in DOMAIN c.elements : c.elements[i].v.cls = cls})

\* C14: in every state of a ScoreElementContainer, externals + eventlogs is
\* the number of elements in the map, externals the number of stored Function
\* elements, eventlogs the number of stored EventLog elements, and neither
\* count is negative.  The states are those whose map holds score elements
\* only.
C14_CountsMatchMap ==
    (/\ container.live
     /\ \A i \in DOMAIN container.elements :
           container.elements[i].v.cls \in {"Function", "EventLog"}) =>
        /\ container.externals + container.eventlogs = Len(container.elements)
        /\ container.externals = CountOf(container, "Function")
        /\ container.eventlogs = CountOf(container, "EventLog")
        /\ container.externals >= 0
        /\ container.eventlogs >= 0

\* C15: a mutation that fails leaves the registry as it was: inserting a
\* value that is neither a Function nor an EventLog into an unfrozen registry
\* raises the internal-consistency error and changes neither the map nor the
\* counts, and deleting an absent name changes nothing.
C15_FailedMutation ==
    [][/\ (/\ last'.op = "__setitem__"
           /\ ~container.readonly
           /\ last'.elem.cls \notin {"Function", "EventLog"}) =>
              (/\ last'.res.exc = "InternalServiceErrorException"
               /\ container' = container)
       /\ (/\ last'.op = "__delitem__"
           /\ ~HasKey(container.elements, last'.name)) =>
              (/\ last'.res.exc # ""
               /\ container' = container)]_vars

====
